---- MODULE Spec2Model ----
(***************************************************************************)
(* Model of the Minkowski-difference collision engine                      *)
(* (src/src/minkowski-math.ts, src/src/minkowski-diff-engine.ts).          *)
(*                                                                         *)
(* Numbers.  The program computes with JavaScript numbers (binary64).      *)
(* A finite number is modelled by the record [k |-> "fin", n, d, e] whose  *)
(* value is (n / d) * 2^e, kept in lowest terms with n and d odd; the      *)
(* other kinds are "nan", "pinf", "ninf", and "surd" (the square root of   *)
(* (n / d) * 2^e when that root is irrational).  Sums, products and        *)
(* quotients are computed exactly, except that a sum whose smaller operand *)
(* lies below half a unit in the last place of the larger one returns the  *)
(* larger operand, as round-to-nearest does.  Rounding errors of relative  *)
(* size 2^-53 on operands of comparable size are not modelled: they are    *)
(* far below the engine's epsilon of 1e-10 for the magnitudes used here.   *)
(*                                                                         *)
(* Style.  A value that is used more than once is passed as an operator    *)
(* argument rather than named in a LET, so each loop body of the source    *)
(* is a short chain of operators, one per group of statements.             *)
(***************************************************************************)
EXTENDS Integers, Sequences, FiniteSets, TLC

----------------------------------------------------------------------------
\* Integer helpers

Abs(i) == IF i < 0 THEN -i ELSE i

Min2(a, b) == IF a < b THEN a ELSE b

Max2(a, b) == IF a > b THEN a ELSE b

RECURSIVE GCD(_, _)
GCD(a, b) == IF b = 0 THEN a ELSE GCD(b, a % b)

Pow2Table ==
    << 1, 2, 4, 8, 16, 32, 64, 128, 256, 512, 1024, 2048, 4096, 8192, 16384,
       32768, 65536, 131072, 262144, 524288, 1048576, 2097152, 4194304,
       8388608, 16777216, 33554432, 67108864, 134217728, 268435456,
       536870912, 1073741824 >>

Pow2(k) == Pow2Table[k + 1]

\* Number of binary digits of i > 0.
RECURSIVE BitLen(_)
BitLen(i) == IF i = 0 THEN 0 ELSE 1 + BitLen(i \div 2)

\* Number of factors 2 of i > 0.
RECURSIVE TwoVal(_)
TwoVal(i) == IF i % 2 = 1 THEN 0 ELSE 1 + TwoVal(i \div 2)

\* Largest r with r * r <= i, from a lower bound r.
RECURSIVE ISqrtFrom(_, _)
ISqrtFrom(i, r) == IF (r + 1) * (r + 1) > i THEN r ELSE ISqrtFrom(i, r + 1)

ISqrt(i) == ISqrtFrom(i, 0)

IsSquare(i) == ISqrt(i) * ISqrt(i) = i

\* -1, 0 or 1 as l is below, at or above r.
CmpInt(l, r) == IF l < r THEN -1 ELSE IF l > r THEN 1 ELSE 0

----------------------------------------------------------------------------
\* Numbers

\* Width of the significand of a JavaScript number (binary64).
SignificandBits == 53

Num(k, n, d, e) == [k |-> k, n |-> n, d |-> d, e |-> e]

NaN == Num("nan", 0, 1, 0)

PInf == Num("pinf", 0, 1, 0)

NInf == Num("ninf", 0, 1, 0)

Zero == Num("fin", 0, 1, 0)

\* (n / d) * 2^e for odd n, d after a factors 2 left n and b left d.
NormShift(n, d, e, a, b) == Num("fin", n \div Pow2(a), d \div Pow2(b), e + a - b)

\* (n / d) * 2^e with g the greatest common divisor of n and d.
NormBy(n, d, e, g) ==
    NormShift(n \div g, d \div g, e, TwoVal(Abs(n \div g)), TwoVal(d \div g))

\* The number (n / d) * 2^e in canonical form, for d > 0.
Norm(n, d, e) ==
    IF n = 0 THEN Zero
    ELSE IF d = 1 /\ n % 2 = 1 THEN Num("fin", n, 1, e)
    ELSE NormBy(n, d, e, GCD(Abs(n), d))

Rat(n, d) == Norm(n, d, 0)

Int2Num(i) == Norm(i, 1, 0)

One == Int2Num(1)

IsFin(x) == x.k = "fin"

IsNaN(x) == x.k = "nan"

\* -1, 0, 1 for a number that is not NaN.
SgnOf(x) ==
    CASE x.k = "pinf" -> 1
      [] x.k = "ninf" -> -1
      [] x.k = "surd" -> 1
      [] x.k = "fin"  -> IF x.n > 0 THEN 1 ELSE IF x.n < 0 THEN -1 ELSE 0

\* |x| lies strictly between 2^(Mag(x)-1) and 2^(Mag(x)+1), for finite x # 0.
Mag(x) == x.e + BitLen(Abs(x.n)) - BitLen(x.d)

\* Whether a and b are dyadic with short significands and close exponents,
\* so that their sum and their order are computed directly.
Small(a, b) ==
    /\ a.d = 1 /\ b.d = 1
    /\ a.e - b.e < 12 /\ b.e - a.e < 12
    /\ a.n < 65536 /\ a.n > -65536 /\ b.n < 65536 /\ b.n > -65536

\* The order of two finite numbers of the same sign, brought to the common
\* exponent e0.
CmpAt(a, b, e0) ==
    CmpInt(a.n * Pow2(a.e - e0) * b.d, b.n * Pow2(b.e - e0) * a.d)

\* The order of two finite numbers of sign s whose magnitudes differ by gap.
CmpFar(a, b, s, gap) ==
    IF gap >= 3 THEN s
    ELSE IF gap <= -3 THEN -s
    ELSE CmpAt(a, b, Min2(a.e, b.e))

\* Exact comparison of two finite numbers: -1, 0 or 1.
CmpFin(a, b) ==
    IF SgnOf(a) # SgnOf(b) THEN CmpInt(SgnOf(a), SgnOf(b))
    ELSE IF SgnOf(a) = 0 THEN 0
    ELSE IF Small(a, b) THEN CmpAt(a, b, Min2(a.e, b.e))
    ELSE CmpFar(a, b, SgnOf(a), Mag(a) - Mag(b))

\* Squares of finite numbers and of surds, for comparing distances.
SquareOf(x) ==
    IF x.k = "surd" THEN Num("fin", x.n, x.d, x.e)
    ELSE Norm(x.n * x.n, x.d * x.d, 2 * x.e)

\* Comparison of two numbers, neither NaN: -1, 0 or 1.
Cmp(a, b) ==
    CASE a.k = "pinf" -> (IF b.k = "pinf" THEN 0 ELSE 1)
      [] a.k = "ninf" -> (IF b.k = "ninf" THEN 0 ELSE -1)
      [] b.k = "pinf" -> -1
      [] b.k = "ninf" -> 1
      [] a.k = "surd" /\ SgnOf(b) <= 0 -> 1
      [] b.k = "surd" /\ SgnOf(a) <= 0 -> -1
      [] OTHER ->
            CmpFin(IF a.k = "fin" /\ b.k = "fin" THEN a ELSE SquareOf(a),
                   IF a.k = "fin" /\ b.k = "fin" THEN b ELSE SquareOf(b))

\* The relational operators of the language: every comparison with NaN is false.
FLt(a, b) == ~IsNaN(a) /\ ~IsNaN(b) /\ Cmp(a, b) < 0

FGt(a, b) == ~IsNaN(a) /\ ~IsNaN(b) /\ Cmp(a, b) > 0

FLe(a, b) == ~IsNaN(a) /\ ~IsNaN(b) /\ Cmp(a, b) <= 0

FGe(a, b) == ~IsNaN(a) /\ ~IsNaN(b) /\ Cmp(a, b) >= 0

\* === on numbers
FEq(a, b) == ~IsNaN(a) /\ ~IsNaN(b) /\ Cmp(a, b) = 0

FNeg(x) ==
    CASE x.k = "fin"  -> [x EXCEPT !.n = -x.n]
      [] x.k = "pinf" -> NInf
      [] x.k = "ninf" -> PInf
      [] x.k = "nan"  -> NaN

\* Math.abs
FAbs(x) ==
    CASE x.k = "fin"  -> [x EXCEPT !.n = Abs(x.n)]
      [] x.k = "surd" -> x
      [] x.k \in {"pinf", "ninf"} -> PInf
      [] x.k = "nan"  -> NaN

\* Math.sign, as a number
FSign(x) == IF IsNaN(x) THEN NaN ELSE Int2Num(SgnOf(x))

\* The exact sum of two finite numbers, brought to the common exponent e0.
AddAt(a, b, e0) ==
    Norm(a.n * Pow2(a.e - e0) * b.d + b.n * Pow2(b.e - e0) * a.d, a.d * b.d, e0)

\* The sum of two finite numbers whose magnitudes differ by gap: the smaller
\* operand is absorbed when it lies below half a unit in the last place of
\* the larger one.
AddFar(a, b, gap) ==
    IF gap >= SignificandBits + 2 THEN a
    ELSE IF -gap >= SignificandBits + 2 THEN b
    ELSE AddAt(a, b, Min2(a.e, b.e))

AddFin(a, b) ==
    IF a.n = 0 THEN b
    ELSE IF b.n = 0 THEN a
    ELSE IF Small(a, b) THEN AddAt(a, b, Min2(a.e, b.e))
    ELSE AddFar(a, b, Mag(a) - Mag(b))

\* a + b
FAdd(a, b) ==
    CASE IsNaN(a) \/ IsNaN(b) -> NaN
      [] a.k = "fin" /\ b.k = "fin" -> AddFin(a, b)
      [] a.k = "pinf" /\ b.k \in {"fin", "pinf"} -> PInf
      [] a.k = "ninf" /\ b.k \in {"fin", "ninf"} -> NInf
      [] a.k = "fin" /\ b.k \in {"pinf", "ninf"} -> b
      [] a.k = "pinf" /\ b.k = "ninf" -> NaN
      [] a.k = "ninf" /\ b.k = "pinf" -> NaN

\* a - b
FSub(a, b) == FAdd(a, FNeg(b))

\* a * b
FMul(a, b) ==
    CASE IsNaN(a) \/ IsNaN(b) -> NaN
      [] a.k = "fin" /\ b.k = "fin" -> Norm(a.n * b.n, a.d * b.d, a.e + b.e)
      [] OTHER ->
            IF SgnOf(a) = 0 \/ SgnOf(b) = 0 THEN NaN
            ELSE IF SgnOf(a) = SgnOf(b) THEN PInf ELSE NInf

\* a / b
FDiv(a, b) ==
    CASE IsNaN(a) \/ IsNaN(b) -> NaN
      [] a.k = "fin" /\ b.k = "fin" ->
            IF b.n = 0
            THEN (IF a.n = 0 THEN NaN ELSE IF a.n > 0 THEN PInf ELSE NInf)
            ELSE Norm(a.n * b.d * SgnOf(b), a.d * Abs(b.n), a.e - b.e)
      [] a.k = "fin" /\ b.k \in {"pinf", "ninf"} -> Zero
      [] a.k \in {"pinf", "ninf"} /\ b.k = "fin" ->
            IF SgnOf(a) * (IF SgnOf(b) < 0 THEN -1 ELSE 1) > 0 THEN PInf ELSE NInf
      [] OTHER -> NaN

\* Math.sqrt.  An irrational root is kept as a surd.
FSqrt(x) ==
    CASE x.k = "nan" -> NaN
      [] x.k = "pinf" -> PInf
      [] x.k = "ninf" -> NaN
      [] x.k = "fin" ->
            IF x.n < 0 THEN NaN
            ELSE IF x.n = 0 THEN Zero
            ELSE IF IsSquare(x.n) /\ IsSquare(x.d) /\ x.e % 2 = 0
                 THEN Num("fin", ISqrt(x.n), ISqrt(x.d), x.e \div 2)
                 ELSE Num("surd", x.n, x.d, x.e)

\* The engine's epsilon, 1e-10 = 2^-10 / 5^10.
epsilon == Num("fin", 1, 9765625, -10)

----------------------------------------------------------------------------
\* minkowski-math.ts

Vec(x, y) == [x |-> x, y |-> y]

ZERO == Vec(Zero, Zero)

\* Sentinel for an index or a provenance field holding Number.NaN.
NoIndex == -2

\* A Vec2Derived.
Pt(x, y, refA, refB) == [x |-> x, y |-> y, refA |-> refA, refB |-> refB]

\* Element i of a JavaScript array (indices from 0).
At(arr, i) == arr[i + 1]

\* The index after i in a ring of n vertices.
After(i, n) == IF i + 1 < n THEN i + 1 ELSE 0

\* "perp dot product" of (ax, ay) and (bx, by)
Perp(ax, ay, bx, by) == FSub(FMul(ax, by), FMul(ay, bx))

Dot(ax, ay, bx, by) == FAdd(FMul(ax, bx), FMul(ay, by))

RECURSIVE LowestFrom(_, _, _)
LowestFrom(v, i, j) ==
    IF j >= Len(v) THEN i
    ELSE IF FLt(At(v, j).y, At(v, i).y)
            \/ (FEq(At(v, j).y, At(v, i).y) /\ FLt(At(v, j).x, At(v, i).x))
         THEN LowestFrom(v, j, j + 1)
         ELSE LowestFrom(v, i, j + 1)

indexOfLowestPoint(v) == LowestFrom(v, 0, 0)

\* A ReusablePointArrayLp holding ring v.
Ring(v) ==
    [points |-> [k \in 1..Len(v) |-> Pt(v[k].x, v[k].y, k - 1, NoIndex)],
     pCount |-> Len(v), iLowest |-> indexOfLowestPoint(v)]

\* The cross product of minkowskiSumConvex with magnitudes below epsilon
\* set to 0.
SnapToZero(pdp) == IF FLt(FAbs(pdp), epsilon) THEN Zero ELSE pdp

\* The cross product of the edges pa -> pb and qa -> qb.
EdgeCross(pa, pb, qa, qb) ==
    Perp(FSub(pb.x, pa.x), FSub(pb.y, pa.y), FSub(qb.x, qa.x), FSub(qb.y, qa.y))

RECURSIVE SumLoop(_, _, _, _, _, _, _)

\* The end of one iteration of minkowskiSumConvex: the cursor of p moves on
\* when stepP, the cursor of q when stepQ.
SumAdvance(p, q, i, j, ic, jc, out, stepP, stepQ) ==
    SumLoop(p, q,
            IF stepP THEN After(i, p.pCount) ELSE i,
            IF stepQ THEN After(j, q.pCount) ELSE j,
            IF stepP THEN ic + 1 ELSE ic,
            IF stepQ THEN jc + 1 ELSE jc,
            out)

\* SumCompare with a tie advancing the cursor of p only.
SumCompareOneCursor(p, q, i, j, ic, jc, out, pdp) ==
    SumAdvance(p, q, i, j, ic, jc, out, FGe(pdp, Zero), FLt(pdp, Zero))

SumCompare(p, q, i, j, ic, jc, out, pdp) ==
    SumAdvance(p, q, i, j, ic, jc, out, FGe(pdp, Zero), FLe(pdp, Zero))

\* One iteration of minkowskiSumConvex on the vertices pa, qa and their
\* successors pb, qb: the sum of pa and qa is emitted.
SumStep(p, q, i, j, ic, jc, out, pa, pb, qa, qb) ==
    SumCompare(p, q, i, j, ic, jc,
               Append(out, Pt(FAdd(pa.x, qa.x), FAdd(pa.y, qa.y), pa.refA, qa.refA)),
               SnapToZero(EdgeCross(pa, pb, qa, qb)))

\* The loop of minkowskiSumConvex from cursor state (i, j, ic, jc), with the
\* vertices emitted so far in out.  Returns the emitted vertices.
SumLoop(p, q, i, j, ic, jc, out) ==
    IF ~(ic < p.pCount \/ jc < q.pCount) THEN out
    ELSE SumStep(p, q, i, j, ic, jc, out,
                 At(p.points, i), At(p.points, After(i, p.pCount)),
                 At(q.points, j), At(q.points, After(j, q.pCount)))

\* The vertices minkowskiSumConvex writes to r.points[0 .. r.pCount).
minkowskiSumConvex(p, q) == SumLoop(p, q, p.iLowest, q.iLowest, 0, 0, <<>>)

\* r after minkowskiSumConvex has written the vertices out into it: the
\* first Len(out) points are overwritten.
SumInto(r, out) ==
    [points |-> [k \in 1..Len(r.points) |->
                    IF k <= Len(out) THEN out[k] ELSE r.points[k]],
     pCount |-> Len(out)]

\* The perp dot product that pointInPolyConvex computes for edge v1 -> v2.
SideOf(pt, v1, v2) ==
    Perp(FSub(pt.x, v1.x), FSub(pt.y, v1.y), FSub(v2.x, v1.x), FSub(v2.y, v1.y))

RECURSIVE InPolyFrom(_, _, _)
InPolyFrom(pt, poly, i) ==
    IF i >= poly.pCount THEN TRUE
    ELSE IF FGt(SideOf(pt, At(poly.points, i),
                       At(poly.points, After(i, poly.pCount))), epsilon)
         THEN FALSE
         ELSE InPolyFrom(pt, poly, i + 1)

pointInPolyConvex(pt, poly) == InPolyFrom(pt, poly, 0)

\* A MinDistResult.
MinDist(d, v1i, v2i, x, y) ==
    [d |-> d, v1i |-> v1i, v2i |-> v2i, minPoint |-> Vec(x, y)]

\* ret after a candidate at squared distance d2: it is taken when closer.
Closer(ret, d2, v1i, v2i, x, y) ==
    IF FLt(d2, ret.d) THEN MinDist(d2, v1i, v2i, x, y) ELSE ret

\* OnEdge without the special handling of near zero cases.
OnEdgeNoSnap(pt, ret, i, j, d2, x, y) == Closer(ret, d2, i, j, x, y)

\* The foot of pt lies on the edge i -> j, at (x, y), squared distance d2.
\* Special handling of d2 = near zero cases.
OnEdge(pt, ret, i, j, d2, x, y) ==
    IF FLt(d2, epsilon) THEN MinDist(Zero, i, j, pt.x, pt.y)
    ELSE Closer(ret, d2, i, j, x, y)

\* The three cases of r.  d2 of the last case is mt2 - mt3 * mt3 with
\* mt3 = r * Math.sqrt(mt1), that is mt2 - r * r * mt1.
MinDistCase(pt, v1, v2, ret, i, j, t1x, t1y, t2x, t2y, mt1, r) ==
    IF FLt(r, Zero)
    THEN Closer(ret, Dot(t2x, t2y, t2x, t2y), i, NoIndex, v1.x, v1.y)
    ELSE IF FGt(r, One)
    THEN Closer(ret, Dot(FSub(pt.x, v2.x), FSub(pt.y, v2.y),
                         FSub(pt.x, v2.x), FSub(pt.y, v2.y)),
                j, NoIndex, v2.x, v2.y)
    ELSE OnEdge(pt, ret, i, j,
                FSub(Dot(t2x, t2y, t2x, t2y), FMul(FMul(r, r), mt1)),
                FAdd(v1.x, FMul(r, t1x)), FAdd(v1.y, FMul(r, t1y)))

\* t1 = v2 - v1 and t2 = pt - v1 are known.
MinDistProject(pt, v1, v2, ret, i, j, t1x, t1y, t2x, t2y, mt1) ==
    MinDistCase(pt, v1, v2, ret, i, j, t1x, t1y, t2x, t2y, mt1,
                FDiv(Dot(t1x, t1y, t2x, t2y), mt1))

MinDistVectors(pt, v1, v2, ret, i, j, t1x, t1y, t2x, t2y) ==
    MinDistProject(pt, v1, v2, ret, i, j, t1x, t1y, t2x, t2y,
                   Dot(t1x, t1y, t1x, t1y))

\* One iteration of the loop of pointPolyConvexMinDist, on the edge from
\* vertex i (v1) to vertex j (v2).  ret.d holds the least squared distance
\* so far.
MinDistEdge(pt, v1, v2, ret, i, j) ==
    MinDistVectors(pt, v1, v2, ret, i, j,
                   FSub(v2.x, v1.x), FSub(v2.y, v1.y),
                   FSub(pt.x, v1.x), FSub(pt.y, v1.y))

RECURSIVE MinDistFrom(_, _, _, _)
MinDistFrom(pt, poly, ret, i) ==
    IF i >= poly.pCount THEN ret
    ELSE MinDistFrom(pt, poly,
                     MinDistEdge(pt, At(poly.points, i),
                                 At(poly.points, After(i, poly.pCount)),
                                 ret, i, After(i, poly.pCount)),
                     i + 1)

\* RootOf without the square root: the squared distance is returned.
RootOfSquared(ret) == ret

\* ret.d = Math.sqrt(ret.d)
RootOf(ret) == [ret EXCEPT !.d = FSqrt(ret.d)]

\* ret is the reused MinDistResult: minPoint keeps its old value when no
\* edge improves on the distance.
pointPolyConvexMinDist(pt, poly, ret) ==
    RootOf(MinDistFrom(pt, poly,
                       [ret EXCEPT !.d = PInf, !.v1i = NoIndex, !.v2i = NoIndex], 0))

----------------------------------------------------------------------------
\* minkowski-math.ts: segments

\* A Segment.
Seg(a, b) == [a |-> a, b |-> b]

\* An IntersectionPoint.
Ip(x, y, s, t, valid) == [x |-> x, y |-> y, s |-> s, t |-> t, valid |-> valid]

vec2Equal(a, b) ==
    /\ FLt(FAbs(FSub(a.x, b.x)), epsilon)
    /\ FLt(FAbs(FSub(a.y, b.y)), epsilon)

\* segmentEqual comparing the endpoints in the given order only.
segmentEqualSameOrder(a, b) == vec2Equal(a.a, b.a) /\ vec2Equal(a.b, b.b)

segmentEqual(a, b) ==
    IF vec2Equal(a.a, b.a) THEN vec2Equal(a.b, b.b)
    ELSE IF vec2Equal(a.b, b.a) THEN vec2Equal(a.a, b.b)
    ELSE FALSE

\* What segmentIntersection leaves in ip and in the temporaries tv1, tv2.
Intersection(ip, tv1, tv2) == [ip |-> ip, tv1 |-> tv1, tv2 |-> tv2]

\* a.a.x + (a.b.x - a.a.x) / 2
HalfWay(from, to) == FAdd(from, FDiv(FSub(to, from), Int2Num(2)))

\* Special handling of equal segments: return midpoint of a
MidpointOf(a) == Ip(HalfWay(a.a.x, a.b.x), HalfWay(a.a.y, a.b.y), One, Zero, TRUE)

\* Both parameters are known.
IntersectAt(a, ip, tv1, tv2, s, t) ==
    IF FLt(t, Zero) \/ FGt(t, One) THEN Intersection(ip, tv1, tv2)
    ELSE Intersection(Ip(FAdd(a.a.x, FMul(t, tv1.x)), FAdd(a.a.y, FMul(t, tv1.y)),
                         s, t, TRUE),
                      tv1, tv2)

SolveT(a, b, ip, tv1, tv2, d, s) ==
    IF FLt(s, Zero) \/ FGt(s, One) THEN Intersection(ip, tv1, tv2)
    ELSE IntersectAt(a, ip, tv1, tv2, s,
                     FDiv(FSub(FMul(tv2.x, FSub(a.a.y, b.a.y)),
                               FMul(tv2.y, FSub(a.a.x, b.a.x))), d))

SolveS(a, b, ip, tv1, tv2, d) ==
    IF FEq(d, Zero) THEN Intersection(ip, tv1, tv2)
    ELSE SolveT(a, b, ip, tv1, tv2, d,
                FDiv(FAdd(FMul(FNeg(tv1.y), FSub(a.a.x, b.a.x)),
                          FMul(tv1.x, FSub(a.a.y, b.a.y))), d))

\* The general solve, with tv1 and tv2 the directions of a and b.
Solve(a, b, ip, tv1, tv2) ==
    SolveS(a, b, ip, tv1, tv2,
           FAdd(FMul(FNeg(tv2.x), tv1.y), FMul(tv1.x, tv2.y)))

\* segmentIntersection(a, b, ip, tv1, tv2): ip keeps the x, y, s and t of
\* the call before when no intersection is found.
segmentIntersection(a, b, ip, tv1, tv2) ==
    IF segmentEqual(a, b) THEN Intersection(MidpointOf(a), tv1, tv2)
    ELSE Solve(a, b, [ip EXCEPT !.valid = FALSE],
               Vec(FSub(a.b.x, a.a.x), FSub(a.b.y, a.a.y)),
               Vec(FSub(b.b.x, b.a.x), FSub(b.b.y, b.a.y)))

\* Whether mt1 * mt2 is 0, for mt1 the length of tv1 and mt2 the root of m2.
NoLength(tv1, m2) == (FEq(tv1.x, Zero) /\ FEq(tv1.y, Zero)) \/ FEq(m2, Zero)

\* r = mt1 * costh with costh = dp / (mt1 * mt2): 0 / 0 when a length is
\* 0, otherwise dp / mt2.  The result is the factor r / mt2 = dp / m2 that
\* multiplies tv2.
ProjectionFactor(dp, tv1, m2) ==
    IF NoLength(tv1, m2) THEN FDiv(FMul(dp, Zero), Zero)
    ELSE FDiv(dp, m2)

\* proj = s.a + r * (tv2 / mt2)
ProjectedBy(s, tv2, f) ==
    Vec(FAdd(s.a.x, FMul(f, tv2.x)), FAdd(s.a.y, FMul(f, tv2.y)))

\* tv1 = p - s.a and tv2 = s.b - s.a are known.
ProjectVectors(s, tv1, tv2) ==
    ProjectedBy(s, tv2,
                ProjectionFactor(Dot(tv1.x, tv1.y, tv2.x, tv2.y), tv1,
                                 Dot(tv2.x, tv2.y, tv2.x, tv2.y)))

pointToSegmentProjection(pt, s) ==
    ProjectVectors(s, Vec(FSub(pt.x, s.a.x), FSub(pt.y, s.a.y)),
                   Vec(FSub(s.b.x, s.a.x), FSub(s.b.y, s.a.y)))
----------------------------------------------------------------------------
\* minkowski-diff-engine.ts: bodies

\* A reference to a Body object: the updateData call that created it (0 for
\* someBody, which the constructor creates) and the index it was given.
Ref(gen, index) == [gen |-> gen, index |-> index]

someBody == Ref(0, -1)

\* if (a < m) m = a
Lesser(a, m) == IF FLt(a, m) THEN a ELSE m

\* if (a > m) m = a
Greater(a, m) == IF FGt(a, m) THEN a ELSE m

RECURSIVE BbFrom(_, _, _)
BbFrom(v, i, bb) ==
    IF i > Len(v) THEN bb
    ELSE BbFrom(v, i + 1,
                [xmin |-> Lesser(v[i].x, bb.xmin), xmax |-> Greater(v[i].x, bb.xmax),
                 ymin |-> Lesser(v[i].y, bb.ymin), ymax |-> Greater(v[i].y, bb.ymax)])

polyBoundingBox(v) ==
    BbFrom(v, 1, [xmin |-> PInf, xmax |-> NInf, ymin |-> PInf, ymax |-> NInf])

\* somePolyData.v.map((v) => ({x: -v.x, y: -v.y}))
Negated(v) == [i \in 1..Len(v) |-> Vec(FNeg(v[i].x), FNeg(v[i].y))]

\* The body createBody builds from descriptor d during updateData call gen.
\* nodeId: the injected idGen is taken to give each descriptor of one
\* updateData call its own id.
createBody(d, index, gen) ==
    [pos |-> d.pos, v |-> d.v, vn |-> Negated(d.v),
     iLowest |-> indexOfLowestPoint(d.v),
     iLowestN |-> indexOfLowestPoint(Negated(d.v)),
     nodeId |-> index, index |-> index,
     bb |-> polyBoundingBox(d.v), castId |-> -1, gen |-> gen]

BodyRef(b) == Ref(b.gen, b.index)

bbOverlap(a, b) ==
    ~(\/ FLt(FAdd(a.pos.x, a.bb.xmax), FAdd(b.pos.x, b.bb.xmin))
      \/ FGt(FAdd(a.pos.x, a.bb.xmin), FAdd(b.pos.x, b.bb.xmax))
      \/ FLt(FAdd(a.pos.y, a.bb.ymax), FAdd(b.pos.y, b.bb.ymin))
      \/ FGt(FAdd(a.pos.y, a.bb.ymin), FAdd(b.pos.y, b.bb.ymax)))

pointInBb(a, b) ==
    ~(\/ FLt(a.x, FAdd(b.pos.x, b.bb.xmin))
      \/ FGt(a.x, FAdd(b.pos.x, b.bb.xmax))
      \/ FLt(a.y, FAdd(b.pos.y, b.bb.ymin))
      \/ FGt(a.y, FAdd(b.pos.y, b.bb.ymax)))

\* A fresh point of a scratch buffer.
FreshPt == Pt(Zero, Zero, NoIndex, NoIndex)

\* arr grown with copies of x until it holds at least n elements.
Grow(arr, n, x) ==
    IF Len(arr) >= n THEN arr
    ELSE arr \o [k \in 1..(n - Len(arr)) |-> x]

----------------------------------------------------------------------------
\* State

VARIABLES
    distCalc, distRefPoint, storeMsrs,  \* constructor parameters
    bodies,                             \* the active Body objects
    collisions, collisionCount,
    castResults, castResultCount, castId,
    castDistPArr, minBbAxis,
    distances,
    p, qn, msra, msrCount, mdr,
    tv,                                 \* tv1 .. tv6 and ip, the shared temporaries
    cast,                               \* position and locals of a running lineCast
    math,                               \* arguments and results of direct calls
                                        \* of the functions of minkowski-math.ts
    hist                                \* history: calls made and their inputs

engineVars == <<distCalc, distRefPoint, storeMsrs, bodies, collisions,
                collisionCount, castResults, castResultCount, castId,
                castDistPArr, minBbAxis, distances, p, qn, msra, msrCount, mdr, tv>>

vars == <<engineVars, cast, math, hist>>

\* The engine as the constructor leaves it.
EngineInit ==
    /\ bodies = <<>>
    /\ collisions = <<>>
    /\ collisionCount = 0
    /\ castResults = <<>>
    /\ castResultCount = 0
    /\ castId = 0
    /\ castDistPArr = [points |-> <<>>, pCount |-> 0]
    /\ minBbAxis = Zero
    /\ distances = <<>>
    /\ p = [points |-> <<>>, pCount |-> 0, iLowest |-> 0]
    /\ qn = [points |-> <<>>, pCount |-> 0, iLowest |-> 0]
    /\ msra = << [points |-> <<>>, pCount |-> 0] >>
    /\ msrCount = 0
    /\ mdr = MinDist(Zero, 0, 0, Zero, Zero)
    /\ tv = [tv1 |-> ZERO, tv2 |-> ZERO, tv3 |-> ZERO, tv4 |-> ZERO, tv5 |-> ZERO,
             tv6 |-> ZERO, ip |-> Ip(Zero, Zero, Zero, Zero, FALSE)]

----------------------------------------------------------------------------
\* updateData

RECURSIVE MinAxisFrom(_, _, _)
MinAxisFrom(bs, i, m) ==
    IF i > Len(bs) THEN m
    ELSE MinAxisFrom(bs, i + 1,
                     Lesser(FSub(bs[i].bb.ymax, bs[i].bb.ymin),
                            Lesser(FSub(bs[i].bb.xmax, bs[i].bb.xmin), m)))

\* The length of castResults after the forEach of updateData has seen the
\* bodies of index i .. n-1, from length len.
RECURSIVE CastResultsLen(_, _, _)
CastResultsLen(len, i, n) ==
    IF i >= n THEN len
    ELSE CastResultsLen(IF i > len THEN len + 1 ELSE len, i + 1, n)

RECURSIVE MaxPointsFrom(_, _, _)
MaxPointsFrom(bs, i, m) ==
    IF i > Len(bs) THEN m ELSE MaxPointsFrom(bs, i + 1, Max2(m, Len(bs[i].v)))

\* Collisions max count for n bodies
MaxCollisions(n) == (Max2(0, n) * (Max2(0, n) - 1)) \div 2

\* InitDist without the assignments to dist.a and dist.b of a reused record.
InitDistKeepingBodies(old, a, b) ==
    [a |-> IF old = <<>> THEN BodyRef(a) ELSE old[1].a,
     b |-> IF old = <<>> THEN BodyRef(b) ELSE old[1].b,
     d |-> NaN, dv |-> ZERO,
     pt |-> IF old = <<>> THEN ZERO ELSE Vec(old[1].pt.x, Zero)]

\* The distance record updateData leaves for the pair (a, b); old is the
\* record found in the table, or <<>> when there was none.  Of pt only y is
\* set to 0.
InitDist(old, a, b) ==
    [a |-> BodyRef(a), b |-> BodyRef(b), d |-> NaN, dv |-> ZERO,
     pt |-> IF old = <<>> THEN ZERO ELSE Vec(old[1].pt.x, Zero)]

InitDistRow(old, bs, i) ==
    [k \in 1..Max2(Len(old), Len(bs) - i) |->
        IF k <= Len(bs) - i
        THEN InitDist(IF k <= Len(old) THEN <<old[k]>> ELSE <<>>, bs[i], bs[i + k])
        ELSE old[k]]

InitDistances(dists, bs) ==
    [i \in 1..Max2(Len(dists), Len(bs) - 1) |->
        IF i <= Len(bs) - 1
        THEN InitDistRow(IF i <= Len(dists) THEN dists[i] ELSE <<>>, bs, i)
        ELSE dists[i]]

\* The result buffer msr with at least n points.
GrowMsr(msr, n) == [msr EXCEPT !.points = Grow(msr.points, n, FreshPt)]

\* GrowMsra sizing each result buffer to maxPoints instead of maxPoints * 2.
GrowMsraUndoubled(ms, cnt, maxPoints) ==
    [i \in 1..Max2(Len(ms), cnt) |->
        IF i <= cnt
        THEN GrowMsr(IF i <= Len(ms) THEN ms[i] ELSE [points |-> <<>>, pCount |-> 0],
                     maxPoints)
        ELSE ms[i]]

GrowMsra(ms, cnt, maxPoints) ==
    [i \in 1..Max2(Len(ms), cnt) |->
        IF i <= cnt
        THEN GrowMsr(IF i <= Len(ms) THEN ms[i] ELSE [points |-> <<>>, pCount |-> 0],
                     maxPoints * 2)
        ELSE ms[i]]

\* updateData once the bodies bs are created.
Rebuild(bs, maxPoints, maxCollisions) ==
    /\ bodies' = bs
    /\ minBbAxis' = MinAxisFrom(bs, 1, PInf)
    /\ castResults' = Grow(castResults, CastResultsLen(Len(castResults), 0, Len(bs)),
                           [b |-> someBody, pos |-> ZERO])
    /\ castDistPArr' = [castDistPArr EXCEPT
                            !.points = Grow(@, maxPoints, Pt(Zero, Zero, -1, -1))]
    /\ p' = [p EXCEPT !.points = Grow(@, maxPoints, FreshPt)]
    /\ qn' = [qn EXCEPT !.points =
                 Grow(@, Len(@) + Max2(0, maxPoints - Len(p.points)), FreshPt)]
    /\ msra' = GrowMsra(msra, IF storeMsrs THEN maxCollisions ELSE 1, maxPoints)
    /\ collisions' = Grow(collisions, maxCollisions, [a |-> someBody, b |-> someBody])
    /\ distances' = InitDistances(distances, bs)
    /\ UNCHANGED <<distCalc, distRefPoint, storeMsrs, collisionCount,
                   castResultCount, castId, msrCount, mdr, tv>>

Created(bs) == Rebuild(bs, MaxPointsFrom(bs, 1, 0), MaxCollisions(Len(bs)))

\* updateData(data), the call number gen.
updateData(data, gen) ==
    Created([i \in 1..Len(data) |-> createBody(data[i], i - 1, gen)])

----------------------------------------------------------------------------
\* Pairwise queries.  A query works on the record S of the fields it writes:
\* collisions, collisionCount, distances, p, qn, msra, msrCount, mdr, tv,
\* with the flag distRefPoint it reads (reffed) and the history fields threw
\* (a TypeError ended the call) and tested (the index pairs checkCollision
\* was called with).

QueryState ==
    [collisions |-> collisions, collisionCount |-> collisionCount,
     distances |-> distances, p |-> p, qn |-> qn, msra |-> msra,
     msrCount |-> msrCount, mdr |-> mdr, tv |-> tv, reffed |-> distRefPoint,
     threw |-> FALSE, tested |-> {}]

\* A read or write of a field of undefined ends the call with a TypeError.
Throw(S) == [S EXCEPT !.threw = TRUE]

\* The input buffer after updatePQn / updatePQnReffed has written ring v,
\* translated by (dx, dy), into it.
LoadRing(buf, v, dx, dy, lowest, reffed) ==
    [points |-> [k \in 1..Len(buf.points) |->
                    IF k <= Len(v)
                    THEN Pt(FAdd(v[k].x, dx), FAdd(v[k].y, dy),
                            IF reffed THEN k - 1 ELSE buf.points[k].refA,
                            IF reffed THEN NoIndex ELSE buf.points[k].refB)
                    ELSE buf.points[k]],
     pCount |-> Len(v), iLowest |-> lowest]

\* updateP without the translation by the position of the body.
updatePAtOrigin(buf, ba, reffed) == LoadRing(buf, ba.v, Zero, Zero, ba.iLowest, reffed)

\* Body a = P
updateP(buf, ba, reffed) ==
    LoadRing(buf, ba.v, ba.pos.x, ba.pos.y, ba.iLowest, reffed)

\* updateQn translating the negated ring by +pos instead of -pos.
updateQnPlusPos(buf, bb, reffed) ==
    LoadRing(buf, bb.vn, bb.pos.x, bb.pos.y, bb.iLowestN, reffed)

\* Body b = -Q
updateQn(buf, bb, reffed) ==
    LoadRing(buf, bb.vn, FNeg(bb.pos.x), FNeg(bb.pos.y), bb.iLowestN, reffed)

\* updatePQn(ba, bb), or updatePQnReffed(ba, bb) when distRefPoint
updatePQn(S, ba, bb) ==
    IF Len(ba.v) > Len(S.p.points) \/ Len(bb.vn) > Len(S.qn.points) THEN Throw(S)
    ELSE [S EXCEPT !.p = updateP(@, ba, S.reffed),
                   !.qn = updateQn(@, bb, S.reffed)]

\* The index of the result buffer checkCollision takes:
\* this.msra[this.storeMsrs ? this.msrCount++ : 0]
NextMsr(S) == IF storeMsrs THEN S.msrCount ELSE 0

\* The index of the result buffer once taken.
UsedMsr(S) == IF storeMsrs THEN S.msrCount - 1 ELSE 0

\* The vertices out written into result buffer k.
StoreSum(S, k, out) ==
    IF k >= Len(S.msra) THEN Throw(S)
    ELSE IF Len(out) > Len(At(S.msra, k).points) THEN Throw(S)
    ELSE [S EXCEPT !.msra[k + 1] = SumInto(@, out),
                   !.msrCount = IF storeMsrs THEN @ + 1 ELSE @]

SumRings(S) ==
    IF S.threw THEN S ELSE StoreSum(S, NextMsr(S), minkowskiSumConvex(S.p, S.qn))

\* if (collision) { ... }
RecordCollision(S, ba, bb, collision) ==
    IF ~collision THEN S
    ELSE IF S.collisionCount >= Len(S.collisions) THEN Throw(S)
    ELSE [S EXCEPT !.collisions[S.collisionCount + 1] =
                       [a |-> BodyRef(ba), b |-> BodyRef(bb)],
                   !.collisionCount = @ + 1]

TestOrigin(S, ba, bb) ==
    IF S.threw THEN S
    ELSE RecordCollision(S, ba, bb, pointInPolyConvex(ZERO, At(S.msra, UsedMsr(S))))

\* The result m of pointPolyConvexMinDist stored in the record of row i,
\* column col.
StoreDistance(S, i, col, m) ==
    IF col < 0 \/ col >= Len(At(S.distances, i)) THEN Throw([S EXCEPT !.mdr = m])
    ELSE [S EXCEPT !.mdr = m,
                   !.distances[i + 1][col + 1].d = m.d,
                   !.distances[i + 1][col + 1].dv =
                       Vec(FNeg(m.minPoint.x), FNeg(m.minPoint.y))]

MeasureDistance(S, i, j) ==
    IF S.threw \/ ~distCalc THEN S
    ELSE IF i >= Len(S.distances) THEN Throw(S)
    ELSE StoreDistance(S, i, j - (i + 1),
                       pointPolyConvexMinDist(ZERO, At(S.msra, UsedMsr(S)), S.mdr))

\* === on two provenance indices: never true of Number.NaN.
SameRef(a, b) == a # NoIndex /\ a = b

\* b.pos + b.v[ref]
WorldVertex(b, ref) ==
    Vec(FAdd(b.pos.x, At(b.v, ref).x), FAdd(b.pos.y, At(b.v, ref).y))

\* v + w
Shifted(v, w) == Vec(FAdd(v.x, w.x), FAdd(v.y, w.y))

\* updateRefpoints writing the contact point to bbd.dv instead of bbd.pt.
SetPtAsDv(S, i, col, pt) == [S EXCEPT !.distances[i + 1][col + 1].dv = pt]

\* bbd.pt.x = ...; bbd.pt.y = ...
SetPt(S, i, col, pt) == [S EXCEPT !.distances[i + 1][col + 1].pt = pt]

\* A's segment's normal, from vertex a1 to vertex a2 of A.
SegmentNormal(collision, a1, a2) ==
    Vec(IF collision THEN FNeg(FSub(a2.y, a1.y)) ELSE FSub(a2.y, a1.y),
        IF collision THEN FSub(a2.x, a1.x) ELSE FNeg(FSub(a2.x, a1.x)))

\* n with x and y divided by a.
DividedBy(n, a) == Vec(FDiv(n.x, a), FDiv(n.y, a))

\* divide x and y by longer one.
Shortened(n) ==
    IF FGt(FAbs(n.x), FAbs(n.y)) THEN DividedBy(n, FAbs(n.x))
    ELSE DividedBy(n, FAbs(n.y))

\* "the nudge": tv1 before the diagonals are built.
Nudge(d, collision, a1, a2) ==
    IF FLt(d, epsilon) THEN Shortened(SegmentNormal(collision, a1, a2)) ELSE ZERO

\* The temporaries and the contact point after segmentIntersection returned
\* x: tv1 holds the projection when the diagonals intersect.
Resolved(S, i, col, t2, t3, t4, t5, x, t1) ==
    [(IF x.ip.valid THEN SetPt(S, i, col, t1) ELSE S) EXCEPT
        !.tv = [tv1 |-> t1, tv2 |-> t2, tv3 |-> t3, tv4 |-> t4, tv5 |-> t5,
                tv6 |-> x.tv2, ip |-> x.ip]]

\* Project intersection point to A's line segment.
ProjectIp(S, i, col, t2, t3, t4, t5, x) ==
    Resolved(S, i, col, t2, t3, t4, t5, x,
             IF x.ip.valid THEN pointToSegmentProjection(x.ip, Seg(t2, t3))
             ELSE x.tv1)

\* Get the intersection point of diagonals.
Diagonals(S, i, col, t1, t2, t3, t4, t5) ==
    ProjectIp(S, i, col, t2, t3, t4, t5,
              segmentIntersection(Seg(t2, t4), Seg(t3, t5), S.tv.ip, t1, S.tv.tv6))

\* Case (c): min distance is between line segments of a and b.
BetweenSegments(S, ba, bb, i, col, rpt1, rpt2, t1) ==
    Diagonals(S, i, col, t1,
              WorldVertex(ba, rpt1.refA), WorldVertex(ba, rpt2.refA),
              Shifted(WorldVertex(bb, rpt1.refB), t1),
              Shifted(WorldVertex(bb, rpt2.refB), t1))

\* The three cases of updateRefpoints on the reference points rpt1, rpt2.
RefCases(S, ba, bb, i, col, collision, rpt1, rpt2) ==
    IF SameRef(rpt1.refA, rpt2.refA)
    THEN SetPt(S, i, col, WorldVertex(ba, rpt1.refA))
    ELSE IF SameRef(rpt1.refB, rpt2.refB)
    THEN SetPt(S, i, col, Shifted(WorldVertex(bb, rpt1.refB), S.mdr.minPoint))
    ELSE BetweenSegments(S, ba, bb, i, col, rpt1, rpt2,
                         Nudge(At(At(S.distances, i), col).d, collision,
                               At(ba.v, rpt1.refA), At(ba.v, rpt2.refA)))

\* rpt1 is msr.points[NaN], undefined, when no edge gave a distance.
updateRefpoints(S, ba, bb, msr, i, col, collision) ==
    IF S.mdr.v1i = NoIndex THEN Throw(S)
    ELSE RefCases(S, ba, bb, i, col, collision, At(msr.points, S.mdr.v1i),
                  At(msr.points, IF S.mdr.v2i = NoIndex THEN S.mdr.v1i ELSE S.mdr.v2i))

\* if (!this.distRefPoint) return; this.updateRefpoints(ba, bb, msr, bbd, collision)
ResolveContact(S, ba, bb, i, j) ==
    IF S.threw \/ ~distCalc \/ ~S.reffed THEN S
    ELSE updateRefpoints(S, ba, bb, At(S.msra, UsedMsr(S)), i, j - (i + 1),
                         pointInPolyConvex(ZERO, At(S.msra, UsedMsr(S))))

\* Whether the pair passes the bounding-box gate of checkCollision.
PassesGate(ba, bb) == distCalc \/ bbOverlap(ba, bb)

Tested(S, i, j) == [S EXCEPT !.tested = @ \cup {<<i, j>>}]

checkCollision(S, ba, bb, i, j) ==
    IF PassesGate(ba, bb)
    THEN ResolveContact(
             MeasureDistance(
                 TestOrigin(SumRings(updatePQn(Tested(S, i, j), ba, bb)), ba, bb), i, j),
             ba, bb, i, j)
    ELSE Tested(S, i, j)

\* OrderedCheck without the comparison of the indices.
OrderedCheckAsPassed(S, ba, bb) == checkCollision(S, ba, bb, ba.index, bb.index)

\* The call both checkBodyBodyCollision and checkBodyCollision make: the
\* body of lower index goes first.
OrderedCheck(S, ba, bb) ==
    IF ba.index < bb.index
    THEN checkCollision(S, ba, bb, ba.index, bb.index)
    ELSE checkCollision(S, bb, ba, bb.index, ba.index)

ResetCounts(S) ==
    [S EXCEPT !.collisionCount = 0, !.msrCount = IF storeMsrs THEN 0 ELSE 1]

checkBodyBodyCollision(ba, bb) == OrderedCheck(ResetCounts(QueryState), ba, bb)

RECURSIVE BodyLoop(_, _, _, _)

\* if (stopOnFirst && this.collisionCount) return
BodyLoopNext(S, ba, i, stopOnFirst) ==
    IF stopOnFirst /\ S.collisionCount # 0 THEN S
    ELSE BodyLoop(S, ba, i + 1, stopOnFirst)

BodyLoop(S, ba, i, stopOnFirst) ==
    IF i >= Len(bodies) \/ S.threw THEN S
    ELSE IF i = ba.index THEN BodyLoop(S, ba, i + 1, stopOnFirst)
    ELSE BodyLoopNext(OrderedCheck(S, ba, At(bodies, i)), ba, i, stopOnFirst)

checkBodyCollision(ba, stopOnFirst) ==
    BodyLoop(ResetCounts(QueryState), ba, 0, stopOnFirst)

RECURSIVE PairsLoop(_, _, _, _)

PairsLoopNext(S, i, j, stopOnFirst) ==
    IF stopOnFirst /\ S.collisionCount # 0 THEN S
    ELSE PairsLoop(S, i, j + 1, stopOnFirst)

PairsLoop(S, i, j, stopOnFirst) ==
    IF i >= Len(bodies) - 1 \/ S.threw THEN S
    ELSE IF j >= Len(bodies) THEN PairsLoop(S, i + 1, i + 2, stopOnFirst)
    ELSE PairsLoopNext(checkCollision(S, At(bodies, i), At(bodies, j), i, j),
                       i, j, stopOnFirst)

checkCollisions(stopOnFirst) == PairsLoop(ResetCounts(QueryState), 0, 1, stopOnFirst)

\* The engine after a query that ended in state S.
Commit(S) ==
    /\ collisions' = S.collisions
    /\ collisionCount' = S.collisionCount
    /\ distances' = S.distances
    /\ p' = S.p
    /\ qn' = S.qn
    /\ msra' = S.msra
    /\ msrCount' = S.msrCount
    /\ mdr' = S.mdr
    /\ tv' = S.tv
    /\ UNCHANGED <<distCalc, distRefPoint, storeMsrs, bodies, castResults,
                   castResultCount, castId, castDistPArr, minBbAxis, cast>>

\* The history after call op ended in state S; swapped tells whether the
\* caller passed a body of higher index before one of lower index.
Called(S, op, swapped) ==
    hist' = [hist EXCEPT !.threw = S.threw, !.tested = S.tested, !.op = op,
                         !.swapped = swapped]

----------------------------------------------------------------------------
\* Inputs

\* Bound on the number of updateData calls in one behaviour.
MaxUpdates == 2

Half(n) == Rat(n, 2)

\* The unit square: local vertices at +-0.5 on both axes.
Square ==
    << Vec(Half(-1), Half(-1)), Vec(Half(1), Half(-1)),
       Vec(Half(1), Half(1)), Vec(Half(-1), Half(1)) >>

\* A triangle whose ring does not start at its lowest vertex.
Triangle == << Vec(Half(1), Zero), Vec(Zero, Half(1)), Vec(Half(-1), Half(-1)) >>

\* A shape descriptor (PolyData) with ring v at (x, y), in halves.
Shape(v, x, y) == [pos |-> Vec(Half(x), Half(y)), v |-> v]

\* Two unit squares at (0,0) and (0.5,0.5).
Overlapping == << Shape(Square, 0, 0), Shape(Square, 1, 1) >>

\* Two unit squares at (0,0) and (2,0).
Apart == << Shape(Square, 0, 0), Shape(Square, 4, 0) >>

\* The arrays passed to updateData.
Layouts ==
    { <<>>,
      Overlapping,
      Apart,
      << Shape(Square, 0, 0), Shape(Triangle, 2, 0), Shape(Square, 1, 1) >> }

----------------------------------------------------------------------------
\* Actions

\* No lineCast call is running.
Idle == cast.pc = "idle"

\* The history after updateData(data).
Updated(data) ==
    hist' = [hist EXCEPT !.updates = @ + 1, !.threw = FALSE, !.tested = {},
                         !.op = "updateData", !.swapped = FALSE,
                         !.origin = [i \in 1..Len(data) |-> data[i].pos],
                         !.moved = [i \in 1..Len(data) |-> <<0, 0, 0>>],
                         !.exact = TRUE]

\* updateData with one of the arrays of layouts, at most max times.
UpdateFrom(layouts, max) ==
    \E data \in layouts :
        /\ Idle
        /\ hist.updates < max
        /\ updateData(data, hist.updates + 1)
        /\ Updated(data)
        /\ UNCHANGED <<cast, math>>

UpdateData == UpdateFrom(Layouts, MaxUpdates)

\* A query leaves the engine and the history as S says.
Query(S, op, swapped) == Commit(S) /\ Called(S, op, swapped) /\ UNCHANGED math

CheckCollisions ==
    \E stopOnFirst \in BOOLEAN :
        /\ Idle
        /\ Query(checkCollisions(stopOnFirst), "checkCollisions", FALSE)

CheckBodyCollision ==
    \E i \in 1..Len(bodies), stopOnFirst \in BOOLEAN :
        /\ Idle
        /\ Query(checkBodyCollision(bodies[i], stopOnFirst), "checkBodyCollision",
                 i > 1)

\* checkBodyBodyCollision on two bodies of the registry, in either order.
CheckBodyBodyCollision ==
    \E i \in 1..Len(bodies), j \in 1..Len(bodies) :
        /\ Idle
        /\ i # j
        /\ Query(checkBodyBodyCollision(bodies[i], bodies[j]),
                 "checkBodyBodyCollision", i > j)

NoHistory ==
    [updates |-> 0, moves |-> 0, casts |-> 0, threw |-> FALSE, tested |-> {},
     op |-> "new", swapped |-> FALSE, origin |-> <<>>, moved |-> <<>>, exact |-> TRUE,
     from |-> ZERO, to |-> ZERO]

\* A new engine with the given constructor parameters; m holds the
\* arguments of the direct calls of the functions of minkowski-math.ts.
NewEngine(dc, drp, sm, m) ==
    /\ EngineInit
    /\ distCalc = dc
    /\ distRefPoint = drp
    /\ storeMsrs = sm
    /\ cast = [pc |-> "idle"]
    /\ math = m
    /\ hist = NoHistory

\* A new engine, with any choice of distCalc and storeMsrs.
Init == \E dc \in BOOLEAN, sm \in BOOLEAN : NewEngine(dc, FALSE, sm, <<>>)

Next ==
    \/ UpdateData
    \/ CheckCollisions
    \/ CheckBodyCollision
    \/ CheckBodyBodyCollision

\* The registry and its queries.
Spec == Init /\ [][Next]_vars

----------------------------------------------------------------------------
\* Properties of the registry and its queries (Spec)

\* The registry holds the shapes of data at the positions of data.
Holds(data) ==
    /\ Len(bodies) = Len(data)
    /\ \A i \in 1..Len(data) : bodies[i].pos = data[i].pos /\ bodies[i].v = data[i].v

\* The last call was checkCollisions on the shapes of data, with distance
\* computation enabled.
Measured(data) == distCalc /\ Holds(data) /\ hist.op = "checkCollisions"

\* The one collision of the list is (body 0, body 1).
FirstPairCollides ==
    /\ collisionCount = 1
    /\ collisions[1] = [a |-> BodyRef(bodies[1]), b |-> BodyRef(bodies[2])]

\* C1 (as amended): with distance computation enabled, after updateData on
\* two unit squares at (0,0) and (0.5,0.5), checkCollisions reports the pair
\* (body 0, body 1) as the one collision, and distances[0][0].d is 0.5, the
\* distance from the origin to the boundary of the difference polygon.
C1_OverlapDistance ==
    Measured(Overlapping) => FirstPairCollides /\ distances[1][1].d = Half(1)

C1_Witness ==
    Measured(Overlapping) /\ FirstPairCollides /\ distances[1][1].d = Half(1)

\* C1 as stated: the stored distance of the overlapping squares is 0.
C1_AsStated ==
    Measured(Overlapping) => FirstPairCollides /\ distances[1][1].d = Zero

\* The squared distance of v from the origin.
SquaredLength(v) == Dot(v.x, v.y, v.x, v.y)

\* C2: with distance computation enabled, after updateData on two unit
\* squares at (0,0) and (2,0), checkCollisions reports no collision and
\* stores distances[0][0].d = 1, with dv the negated nearest point (-1, 0)
\* of the difference polygon: no vertex of that polygon is nearer.
C2_ApartDistance ==
    Measured(Apart) =>
        /\ collisionCount = 0
        /\ distances[1][1].d = One
        /\ distances[1][1].dv = Vec(FNeg(mdr.minPoint.x), FNeg(mdr.minPoint.y))
        /\ distances[1][1].dv = Vec(One, Zero)
        /\ \A k \in 1..msra[1].pCount : FGe(SquaredLength(msra[1].points[k]), One)

C2_Witness ==
    /\ Measured(Apart)
    /\ collisionCount = 0
    /\ distances[1][1].d = One
    /\ msra[1].pCount = 4

\* The index pairs i < j of n bodies.
Pairs(n) == {ij \in (0..(n - 1)) \X (0..(n - 1)) : ij[1] < ij[2]}

\* The places (row, column) of the distance table, from 1.
Records == {rc \in (1..Len(distances)) \X (1..3) : rc[2] <= Len(distances[rc[1]])}

\* The places whose record is about bodies of the current registry.
LogicalRecords == {rc \in Records : distances[rc[1]][rc[2]].a.gen = hist.updates}

\* The record of pair ij exists and names bodies[i] and bodies[j].
RecordOf(ij) ==
    /\ ij[1] < Len(distances)
    /\ ij[2] - (ij[1] + 1) < Len(At(distances, ij[1]))
    /\ At(At(distances, ij[1]), ij[2] - (ij[1] + 1)).a = BodyRef(At(bodies, ij[1]))
    /\ At(At(distances, ij[1]), ij[2] - (ij[1] + 1)).b = BodyRef(At(bodies, ij[2]))

\* C9: after any sequence of updateData calls, every pair i < j of the N
\* current bodies has its record at distances[i][j-(i+1)], with a = bodies[i]
\* and b = bodies[j]; exactly N(N-1)/2 records are about current bodies; no
\* call fails, also after a rebuild with fewer bodies, and queries are made
\* on pairs i < j < N only.
C9_DistanceTable ==
    /\ \A ij \in Pairs(Len(bodies)) : RecordOf(ij)
    /\ Cardinality(LogicalRecords) = (Len(bodies) * (Len(bodies) - 1)) \div 2
    /\ ~hist.threw
    /\ hist.tested \subseteq Pairs(Len(bodies))

\* A registry rebuilt with two bodies after one with three, and measured.
C9_Witness ==
    /\ Len(bodies) = 2
    /\ Len(distances) = 2
    /\ distCalc
    /\ hist.op = "checkCollisions"
    /\ hist.tested = {<<0, 1>>}
    /\ ~IsNaN(distances[1][1].d)

Queries == {"checkCollisions", "checkBodyCollision", "checkBodyBodyCollision"}

\* Entry k of the collision list names two bodies of the registry, the one
\* of lower index first.
OrderedEntry(k) ==
    /\ collisions[k].a.index < collisions[k].b.index
    /\ collisions[k].a.index >= 0
    /\ collisions[k].b.index < Len(bodies)
    /\ collisions[k].a = BodyRef(At(bodies, collisions[k].a.index))
    /\ collisions[k].b = BodyRef(At(bodies, collisions[k].b.index))

\* C10: after any query variant on bodies of the registry, in whatever order
\* the caller passes two bodies, every entry of collisions[0..collisionCount)
\* has a.index < b.index, and the index of each body is its position in the
\* bodies list.
C10_OrderedPairs ==
    /\ \A i \in 1..Len(bodies) : bodies[i].index = i - 1
    /\ hist.op \in Queries =>
           /\ collisionCount <= Len(collisions)
           /\ \A k \in 1..collisionCount : OrderedEntry(k)

\* A collision found by a query whose caller passed the body of higher index
\* first.
C10_Witness ==
    /\ hist.op = "checkBodyBodyCollision"
    /\ hist.swapped
    /\ collisionCount = 1
    /\ OrderedEntry(1)

----------------------------------------------------------------------------
\* Direct calls of minkowskiSumConvex, pointInPolyConvex and
\* pointPolyConvexMinDist (SpecMath)

Eighth(n) == Rat(n, 8)

\* 2^-17, well below Math.sqrt(epsilon) and well above epsilon.
Sliver == Num("fin", 1, 1, -17)

\* The square with vertices at +-1/16 on both axes.
SmallSquare ==
    << Vec(Rat(-1, 16), Rat(-1, 16)), Vec(Rat(1, 16), Rat(-1, 16)),
       Vec(Rat(1, 16), Rat(1, 16)), Vec(Rat(-1, 16), Rat(1, 16)) >>

\* A square standing on a vertex, listed from its top vertex.
Diamond == << Vec(Zero, Half(1)), Vec(Half(-1), Zero), Vec(Zero, Half(-1)), Vec(Half(1), Zero) >>

\* A right triangle with two edges along the axes.
Corner == << Vec(Zero, Zero), Vec(Half(1), Zero), Vec(Zero, Half(1)) >>

\* Convex, counter-clockwise rings without parallel edges.
Rings == {Square, SmallSquare, Diamond, Corner, Triangle}

\* Query points: inside, on an edge, on a vertex and outside.
Points ==
    { Vec(Zero, Zero), Vec(Eighth(1), Zero), Vec(Half(1), Zero), Vec(Half(1), Half(1)),
      Vec(Rat(1, 16), Zero), Vec(Rat(1, 16), Rat(1, 16)),
      Vec(Int2Num(1), Zero), Vec(Half(1), Int2Num(1)), Vec(Eighth(1), Eighth(-1)) }

\* The query points for ring P: for SmallSquare also the points a sliver
\* outside and a sliver inside its right edge.
PointsFor(P) ==
    IF P = SmallSquare
    THEN Points \cup { Vec(FAdd(Rat(1, 16), Sliver), Zero),
                        Vec(FSub(Rat(1, 16), Sliver), Zero) }
    ELSE Points

\* The arguments of the calls: the rings P and Q, the point pt, the result
\* buffer r with room for Len(P) + Len(Q) points, and the reused ret.
Arguments(P, Q, pt) ==
    [P |-> P, Q |-> Q, pt |-> pt,
     r |-> [points |-> [k \in 1..(Len(P) + Len(Q)) |-> FreshPt], pCount |-> 0],
     inside |-> FALSE,
     ret |-> MinDist(Zero, 0, 0, Zero, Zero),
     done |-> {}]

InitMath ==
    \E P \in Rings, Q \in Rings : \E pt \in PointsFor(P) :
        NewEngine(TRUE, FALSE, FALSE, Arguments(P, Q, pt))

\* math after the call named fn has returned.
Returned(m, fn) == math' = [m EXCEPT !.done = @ \cup {fn}]

MinkowskiSumConvex ==
    /\ "minkowskiSumConvex" \notin math.done
    /\ Returned([math EXCEPT !.r = SumInto(@, minkowskiSumConvex(Ring(math.P), Ring(math.Q)))],
                "minkowskiSumConvex")
    /\ UNCHANGED <<engineVars, cast, hist>>

PointInPolyConvex ==
    /\ "pointInPolyConvex" \notin math.done
    /\ Returned([math EXCEPT !.inside = pointInPolyConvex(math.pt, Ring(math.P))],
                "pointInPolyConvex")
    /\ UNCHANGED <<engineVars, cast, hist>>

PointPolyConvexMinDist ==
    /\ "pointPolyConvexMinDist" \notin math.done
    /\ Returned([math EXCEPT !.ret = pointPolyConvexMinDist(math.pt, Ring(math.P), @)],
                "pointPolyConvexMinDist")
    /\ UNCHANGED <<engineVars, cast, hist>>

NextMath == MinkowskiSumConvex \/ PointInPolyConvex \/ PointPolyConvexMinDist

SpecMath == InitMath /\ [][NextMath]_vars

\* Edge k (from 1) of ring v, as a vector.
EdgeOf(v, k) ==
    Vec(FSub(At(v, After(k - 1, Len(v))).x, v[k].x),
        FSub(At(v, After(k - 1, Len(v))).y, v[k].y))

\* The vectors a and b are parallel and point the same way.
SameDirection(a, b) ==
    /\ Perp(a.x, a.y, b.x, b.y) = Zero
    /\ FGt(Dot(a.x, a.y, b.x, b.y), Zero)

\* The pairs (edge of P, edge of Q) of equal direction.
ParallelPairs(P, Q) ==
    {kl \in (1..Len(P)) \X (1..Len(Q)) : SameDirection(EdgeOf(P, kl[1]), EdgeOf(Q, kl[2]))}

Summed == "minkowskiSumConvex" \in math.done

\* C3 (as amended): minkowskiSumConvex on convex counter-clockwise rings P
\* (n vertices) and Q (m vertices), neither with two parallel edges, leaves
\* r.pCount = n + m - t, where t is the number of pairs of an edge of P and
\* an edge of Q of equal direction: one vertex is emitted per step, also
\* when both cursors advance in the step.
C3_SumVertexCount ==
    Summed => math.r.pCount
                = Len(math.P) + Len(math.Q) - Cardinality(ParallelPairs(math.P, math.Q))

C3_Witness ==
    /\ Summed
    /\ math.P = Corner /\ math.Q = Square
    /\ Cardinality(ParallelPairs(math.P, math.Q)) = 2
    /\ math.r.pCount = 5

\* C3 as stated: r.pCount = n + m, parallel edges or not.
C3_AsStated == Summed => math.r.pCount = Len(math.P) + Len(math.Q)

\* pt is within Math.sqrt(epsilon) of edge k of ring v, its foot on the edge:
\* with t1 the edge and t2 = pt - v[k], 0 <= t1.t2 <= t1.t1 and
\* (t1 x t2)^2 < epsilon * t1.t1.
NearVectors(t1, t2) ==
    /\ FGe(Dot(t1.x, t1.y, t2.x, t2.y), Zero)
    /\ FLe(Dot(t1.x, t1.y, t2.x, t2.y), Dot(t1.x, t1.y, t1.x, t1.y))
    /\ FLt(FMul(Perp(t1.x, t1.y, t2.x, t2.y), Perp(t1.x, t1.y, t2.x, t2.y)),
           FMul(epsilon, Dot(t1.x, t1.y, t1.x, t1.y)))

NearBoundary(pt, v) ==
    \E k \in 1..Len(v) :
        NearVectors(EdgeOf(v, k), Vec(FSub(pt.x, v[k].x), FSub(pt.y, v[k].y)))

BothTested == {"pointInPolyConvex", "pointPolyConvexMinDist"} \subseteq math.done

\* C4 (as amended): pointPolyConvexMinDist measures the distance to the
\* boundary of the polygon.  It returns d = 0 exactly when the point is
\* within Math.sqrt(epsilon) of an edge, with its foot on the edge, and d > 0
\* otherwise, whatever pointInPolyConvex returns for the same point.
C4_BoundaryDistance ==
    BothTested =>
        /\ (math.ret.d = Zero) <=> NearBoundary(math.pt, math.P)
        /\ (math.ret.d # Zero) => FGt(math.ret.d, Zero)

\* A point inside the polygon, away from its boundary, with d > 0.
C4_Witness ==
    /\ BothTested
    /\ math.inside
    /\ ~NearBoundary(math.pt, math.P)
    /\ FGt(math.ret.d, Zero)

\* C4 as stated: d = 0 exactly when pointInPolyConvex returns true.
C4_AsStated == BothTested => ((math.ret.d = Zero) <=> math.inside)
----------------------------------------------------------------------------
\* Translations with updateShapePos (SpecMove)

\* Bound on the number of updateShapePos calls in one behaviour.
MaxMoves == 3

\* Two unit squares sharing an edge.
Touching == << Shape(Square, 0, 0), Shape(Square, 2, 0) >>

\* Two diamonds apart whose bounding boxes overlap.
Interlocked == << Shape(Diamond, 0, 0), Shape(Diamond, 1, 2) >>

MoveLayouts == {Overlapping, Apart, Touching, Interlocked}

\* The translations passed to updateShapePos: half a unit either way along
\* x, and 2^60 along x.
Deltas == << Vec(Half(1), Zero), Vec(Half(-1), Zero), Vec(Num("fin", 1, 1, 60), Zero) >>

\* Whether the sum a + b is computed without rounding.
ExactSum(a, b) ==
    IsFin(a) /\ IsFin(b)
    /\ (a.n = 0 \/ b.n = 0 \/ Abs(Mag(a) - Mag(b)) < SignificandBits + 2)

\* b.pos.x += dx; b.pos.y += dy on body number i (from 1)
updateShapePos(bs, i, dx, dy) ==
    [bs EXCEPT ![i].pos = Vec(FAdd(@.x, dx), FAdd(@.y, dy))]

\* The history after translation number k of body number i.
Moved(i, k) ==
    hist' = [hist EXCEPT !.moves = @ + 1, !.threw = FALSE, !.tested = {},
                         !.op = "updateShapePos", !.swapped = FALSE,
                         !.moved[i][k] = @ + 1,
                         !.exact = @ /\ ExactSum(bodies[i].pos.x, Deltas[k].x)
                                     /\ ExactSum(bodies[i].pos.y, Deltas[k].y)]

\* updateShapePos(id, dx, dy) with the id of a body of the registry.
UpdateShapePos ==
    \E i \in 1..Len(bodies), k \in 1..Len(Deltas) :
        /\ Idle
        /\ hist.moves < MaxMoves
        /\ bodies' = updateShapePos(bodies, i, Deltas[k].x, Deltas[k].y)
        /\ Moved(i, k)
        /\ UNCHANGED <<distCalc, distRefPoint, storeMsrs, collisions, collisionCount,
                       castResults, castResultCount, castId, castDistPArr, minBbAxis,
                       distances, p, qn, msra, msrCount, mdr, tv, cast, math>>

InitMove == \E dc \in BOOLEAN : NewEngine(dc, FALSE, FALSE, <<>>)

NextMove ==
    \/ UpdateFrom(MoveLayouts, 1)
    \/ UpdateShapePos
    \/ CheckBodyBodyCollision

SpecMove == InitMove /\ [][NextMove]_vars

\* The net translation of a body: halves along x, and multiples of 2^60.
NetOf(moved) == <<moved[1] - moved[2], moved[3]>>

\* Every vertex of every body is translated to its position without rounding.
ExactlyPlaced ==
    \A i \in 1..Len(bodies) : \A k \in 1..Len(bodies[i].v) :
        /\ ExactSum(bodies[i].v[k].x, bodies[i].pos.x)
        /\ ExactSum(bodies[i].v[k].y, bodies[i].pos.y)

\* The last call was a pairwise query on two bodies that have both been
\* translated, by the same vector.
PairTranslated ==
    /\ hist.op = "checkBodyBodyCollision"
    /\ Len(bodies) = 2
    /\ NetOf(hist.moved[1]) = NetOf(hist.moved[2])
    /\ NetOf(hist.moved[1]) # <<0, 0>>

\* Whether the pairwise query reports a collision for the two bodies put
\* back at the positions they were registered with.
CollidesAtOrigin ==
    checkBodyBodyCollision([bodies[1] EXCEPT !.pos = hist.origin[1]],
                           [bodies[2] EXCEPT !.pos = hist.origin[2]]).collisionCount = 1

\* C5 (as amended): after both bodies of a pair have been translated by the
\* same vector with updateShapePos, the pairwise query (bounding-box gate
\* included) reports a collision exactly when it does for the bodies at
\* their original positions, provided no position update and no translation
\* of a vertex to its position was rounded.
C5_TranslationInvariant ==
    PairTranslated /\ hist.exact /\ ExactlyPlaced
        => ((collisionCount = 1) <=> CollidesAtOrigin)

C5_Witness ==
    /\ PairTranslated /\ hist.exact /\ ExactlyPlaced
    /\ ~distCalc
    /\ Holds(<< Shape(Square, 1, 0), Shape(Square, 3, 0) >>)
    /\ collisionCount = 1
    /\ CollidesAtOrigin

\* C5 as stated: translating both bodies by the same vector never changes
\* the collision result.
C5_AsStated == PairTranslated => ((collisionCount = 1) <=> CollidesAtOrigin)
----------------------------------------------------------------------------
\* lineCast, step by step.  cast.pc is the position of the running call:
\* "coarse" at the test of while (count > 0), "body" in the for loop over
\* the bodies at the coarse point tv3, "binary" at the test of the binary
\* search loop, "walk" at the test of the fine walk loop, "idle" outside a
\* call.

\* x + Number.EPSILON for the count of coarse steps: 2^-52 is kept below 2
\* and lost in the rounding from 2 on.  ulp tells whether it was kept.
AddEPSILON(x) == [val |-> x, ulp |-> FLt(x, Int2Num(2))]

\* count > 0
Positive(count) == FGt(count.val, Zero) \/ (count.val = Zero /\ count.ulp)

\* count--
Decremented(count) == [count EXCEPT !.val = FSub(@, One)]

\* castDistPArr after pointInBody has put the translated points of body
\* into it.
LoadBody(arr, body) ==
    [points |-> [k \in 1..Len(arr.points) |->
                    IF k <= Len(body.v)
                    THEN [arr.points[k] EXCEPT !.x = FAdd(body.v[k].x, body.pos.x),
                                               !.y = FAdd(body.v[k].y, body.pos.y)]
                    ELSE arr.points[k]],
     pCount |-> Len(body.v)]

\* The value pointInBody(pt, body) returns.
pointInBody(pt, body, arr) == pointInPolyConvex(pt, LoadBody(arr, body))

\* The bodies, results and scratch array a running lineCast works on.
CastState ==
    [bodies |-> bodies, castResults |-> castResults,
     castResultCount |-> castResultCount, castDistPArr |-> castDistPArr,
     hit |-> FALSE, threw |-> FALSE]

\* pointInBb(pt, b) && this.pointInBody(pt, b) on body number j (from 1):
\* pointInBody runs only when pointInBb holds.
Probe(C, pt, j) ==
    IF pointInBb(pt, C.bodies[j])
    THEN [C EXCEPT !.castDistPArr = LoadBody(@, C.bodies[j]),
                   !.hit = pointInBody(pt, C.bodies[j], C.castDistPArr)]
    ELSE [C EXCEPT !.hit = FALSE]

\* The for loop of the binary search from body number j: it ends at the
\* first body not yet hit that contains pt.
RECURSIVE HitFrom(_, _, _)
HitFrom(C, pt, j) ==
    IF j > Len(C.bodies) \/ C.hit THEN C
    ELSE IF C.bodies[j].castId = castId THEN HitFrom(C, pt, j + 1)
    ELSE HitFrom(Probe(C, pt, j), pt, j + 1)

\* Recorded without the stamp on the body.
RecordedUnstamped(C, pt, j) ==
    IF C.castResultCount >= Len(C.castResults)
    THEN [C EXCEPT !.castResultCount = @ + 1, !.threw = TRUE]
    ELSE [C EXCEPT !.castResults[C.castResultCount + 1] =
                       [b |-> BodyRef(C.bodies[j]), pos |-> pt],
                   !.castResultCount = @ + 1]

\* The hit on body number j at pt is recorded: the body is stamped, and the
\* write to a result that does not exist ends the call with a TypeError.
Recorded(C, pt, j) ==
    IF C.castResultCount >= Len(C.castResults)
    THEN [C EXCEPT !.bodies[j].castId = castId, !.castResultCount = @ + 1,
                   !.threw = TRUE]
    ELSE [C EXCEPT !.bodies[j].castId = castId,
                   !.castResults[C.castResultCount + 1] =
                       [b |-> BodyRef(C.bodies[j]), pos |-> pt],
                   !.castResultCount = @ + 1]

RecordIfHit(C, pt, j) == IF C.hit THEN Recorded(C, pt, j) ELSE C

\* The for loop of the fine walk from body number j: every body not yet
\* hit that contains pt is recorded.
RECURSIVE RecordFrom(_, _, _)
RecordFrom(C, pt, j) ==
    IF j > Len(C.bodies) \/ C.threw THEN C
    ELSE IF C.bodies[j].castId = castId THEN RecordFrom(C, pt, j + 1)
    ELSE RecordFrom(RecordIfHit(Probe(C, pt, j), pt, j), pt, j + 1)

\* The engine and the history as a step of lineCast leaves them: C holds
\* the fields the loops over the bodies write, t the temporaries, c the
\* position and the locals.  A TypeError ends the call.
CastStep(C, t, c) ==
    /\ bodies' = C.bodies
    /\ castResults' = C.castResults
    /\ castResultCount' = C.castResultCount
    /\ castDistPArr' = C.castDistPArr
    /\ tv' = t
    /\ cast' = IF C.threw THEN [pc |-> "idle"] ELSE c
    /\ hist' = [hist EXCEPT !.threw = C.threw]
    /\ UNCHANGED <<distCalc, distRefPoint, storeMsrs, collisions, collisionCount,
                   castId, minBbAxis, distances, p, qn, msra, msrCount, mdr, math>>

\* The locals of lineCast at its first test of count > 0.
Locals(count) ==
    [pc |-> "coarse", count |-> count, i |-> 0, m |-> -2, wasHit |-> TRUE,
     sx |-> Zero, sy |-> Zero]

\* The temporaries once the unit vector (ux, uy) and the step are known.
Aimed(from, ux, uy, step) ==
    [tv EXCEPT !.tv1 = Vec(FMul(ux, step), FMul(uy, step)),
               !.tv2 = Vec(ux, uy),
               !.tv3 = from]

\* The head of lineCast, for a ray of direction (dx, dy) and length d.
Aim(from, dx, dy, d, step) ==
    /\ castId' = castId + 1
    /\ castResultCount' = 0
    /\ tv' = Aimed(from, FDiv(dx, d), FDiv(dy, d), step)
    /\ cast' = Locals(AddEPSILON(FAdd(FDiv(d, step), One)))
    /\ UNCHANGED <<distCalc, distRefPoint, storeMsrs, bodies, collisions,
                   collisionCount, castResults, castDistPArr, minBbAxis, distances,
                   p, qn, msra, msrCount, mdr, math>>

lineCast(from, to, dx, dy) ==
    Aim(from, dx, dy, FSqrt(Dot(dx, dy, dx, dy)), FMul(minBbAxis, Rat(49, 50)))

\* |tv4.x| + |tv4.y| > 0.5
Coarser(tv4) == FGt(FAdd(FAbs(tv4.x), FAbs(tv4.y)), Half(1))

\* One iteration of the binary search: tv4 and tv5 are updated, C is the
\* state after the for loop at tv5.
Halved(t, m) ==
    [t EXCEPT !.tv4 = Vec(FDiv(@.x, Int2Num(m)), FDiv(@.y, Int2Num(m))),
              !.tv5 = Vec(FAdd(@.x, FDiv(t.tv4.x, Int2Num(m))),
                          FAdd(@.y, FDiv(t.tv4.y, Int2Num(m))))]

\* If hit status changed, turn around
Turned(c, hit) ==
    IF c.wasHit # hit THEN [c EXCEPT !.m = -2, !.wasHit = hit] ELSE [c EXCEPT !.m = 2]

\* Math.sign(tv3 - tv5), along x and along y
SignX(t) == FSign(FSub(t.tv3.x, t.tv5.x))

SignY(t) == FSign(FSub(t.tv3.y, t.tv5.y))

\* The test of the fine walk loop.
Behind(t, c) == FEq(SignX(t), c.sx) /\ FEq(SignY(t), c.sy)
----------------------------------------------------------------------------
\* The steps of lineCast as actions (SpecCast)

\* Bound on the number of lineCast calls in one behaviour.
MaxCasts == 2

\* A flattened triangle: its bounding box has height 0.
FlatRing == << Vec(Half(-1), Zero), Vec(Zero, Zero), Vec(Half(1), Zero) >>

\* 2^60
Far == Num("fin", 1, 1, 60)

Single == << Shape(Square, 0, 0) >>

\* Two squares that both contain (-0.49, 0), and a third one along the x axis.
Three == << Shape(Square, 0, 0), Shape(Square, -1, 0), Shape(Square, 8, 0) >>

CastLayouts ==
    { <<>>, Single, Three,
      << Shape(Square, 0, 0), Shape(FlatRing, 0, 4) >>,
      << [pos |-> Vec(Far, Zero), v |-> Square], Shape(Square, 0, 0) >> }

\* The rays passed to lineCast, all along the x axis.
Rays ==
    { << Vec(Int2Num(-10), Zero), Vec(Int2Num(10), Zero) >>,
      << Vec(Zero, Zero), Vec(Int2Num(3), Zero) >>,
      << Vec(Zero, Zero), Vec(Zero, Zero) >>,
      << Vec(Far, Zero), Vec(FMul(Far, Int2Num(2)), Zero) >> }

\* lineCast(from, to) is called.
LineCast ==
    \E ray \in Rays :
        /\ Idle
        /\ hist.updates > 0
        /\ hist.casts < MaxCasts
        /\ lineCast(ray[1], ray[2], FSub(ray[2].x, ray[1].x), FSub(ray[2].y, ray[1].y))
        /\ hist' = [hist EXCEPT !.casts = @ + 1, !.op = "lineCast", !.threw = FALSE,
                                !.tested = {}, !.swapped = FALSE,
                                !.from = ray[1], !.to = ray[2]]

\* while (count > 0): the for loop starts, or the call returns.
CoarseLoop ==
    /\ cast.pc = "coarse"
    /\ CastStep(CastState, tv,
                IF Positive(cast.count) THEN [cast EXCEPT !.pc = "body", !.i = 0]
                ELSE [pc |-> "idle"])

\* The state after the test of body number i + 1 at tv3: a hit starts the
\* binary search.
BodyTested(C) ==
    CastStep([C EXCEPT !.hit = FALSE],
             IF C.hit THEN [tv EXCEPT !.tv4 = tv.tv1, !.tv5 = tv.tv3] ELSE tv,
             IF C.hit THEN [cast EXCEPT !.pc = "binary", !.m = -2, !.wasHit = TRUE]
             ELSE [cast EXCEPT !.i = @ + 1])

\* One turn of the for loop over the bodies at tv3, or its end: tv3 += tv1
\* and count--.
BodyTest ==
    /\ cast.pc = "body"
    /\ IF cast.i >= Len(bodies)
       THEN CastStep(CastState,
                     [tv EXCEPT !.tv3 = Vec(FAdd(@.x, tv.tv1.x), FAdd(@.y, tv.tv1.y))],
                     [cast EXCEPT !.pc = "coarse", !.count = Decremented(@)])
       ELSE IF bodies[cast.i + 1].castId = castId
       THEN CastStep(CastState, tv, [cast EXCEPT !.i = @ + 1])
       ELSE BodyTested(Probe(CastState, tv.tv3, cast.i + 1))

\* The state after one iteration of the binary search that moved the
\* temporaries to t and left the for loop in state C.
Searched(C, t) == CastStep([C EXCEPT !.hit = FALSE], t, Turned(cast, C.hit))

SearchAt(t) == Searched(HitFrom(CastState, t.tv5, 1), t)

\* One iteration of the binary search, or its end: the fine walk starts.
BinaryStep ==
    /\ cast.pc = "binary"
    /\ IF Coarser(tv.tv4)
       THEN SearchAt(Halved(tv, cast.m))
       ELSE CastStep(CastState, tv,
                     [cast EXCEPT !.pc = "walk", !.sx = SignX(tv), !.sy = SignY(tv)])

\* One iteration of the fine walk, or its end: the for loop over the bodies
\* at tv3 goes on.
WalkStep ==
    /\ cast.pc = "walk"
    /\ IF Behind(tv, cast)
       THEN CastStep([RecordFrom(CastState, tv.tv5, 1) EXCEPT !.hit = FALSE],
                     [tv EXCEPT !.tv5 = Vec(FAdd(@.x, tv.tv2.x), FAdd(@.y, tv.tv2.y))],
                     cast)
       ELSE CastStep(CastState, tv, [cast EXCEPT !.pc = "body", !.i = @ + 1])

InitCast == NewEngine(TRUE, FALSE, FALSE, <<>>)

NextCast ==
    \/ UpdateFrom(CastLayouts, 1)
    \/ LineCast
    \/ CoarseLoop
    \/ BodyTest
    \/ BinaryStep
    \/ WalkStep

SpecCast == InitCast /\ [][NextCast]_vars

----------------------------------------------------------------------------
\* Properties of lineCast (SpecCast)

\* The last call was lineCast(from, to) and it has ended.
CastEnded(from, to) ==
    Idle /\ hist.op = "lineCast" /\ hist.from = from /\ hist.to = to

\* The entries of castResults that the last lineCast call wrote.
Reported == 1..Min2(castResultCount, Len(castResults))

\* C6: after updateData with a single unit square at (0,0), lineCast from
\* (-10,0) to (10,0) ends with castResultCount = 1, castResults[0].b that
\* body and castResults[0].pos within one fine step of (-0.5, 0).
C6_AsStated ==
    Holds(Single) /\ CastEnded(Vec(Int2Num(-10), Zero), Vec(Int2Num(10), Zero))
        => /\ castResultCount = 1
           /\ Len(castResults) >= 1
           /\ castResults[1].b = BodyRef(bodies[1])
           /\ castResults[1].pos.y = Zero
           /\ FLe(FAbs(FAdd(castResults[1].pos.x, Half(1))), One)

\* C7: no body is reported twice by one lineCast call.  The entries of
\* castResults below castResultCount are distinct bodies; an entry written
\* by the call names a body that carries the stamp of the call; and castId
\* is the number of lineCast calls made, so that it grows with every call.
C7_NoBodyTwice ==
    /\ \A a \in Reported, b \in Reported :
           a # b => castResults[a].b # castResults[b].b
    /\ \A a \in Reported :
           castResults[a].b.gen = hist.updates /\ hist.op = "lineCast"
               => bodies[castResults[a].b.index + 1].castId = castId
    /\ castId = hist.casts

\* Two bodies reported by the second call.
C7_Witness ==
    /\ Idle /\ hist.op = "lineCast" /\ castId = 2
    /\ castResultCount = 2 /\ Len(castResults) >= 2
    /\ castResults[1].b # castResults[2].b

\* C8: every lineCast call terminates: count is only written by count--
\* at the end of a pass of the coarse loop, and every pass lowers it.
C8_AsStated ==
    [][cast.pc = "body" /\ cast'.pc = "coarse"
           => FLt(cast'.count.val, cast.count.val)]_vars

\* C14: lineCast never writes past the end of castResults:
\* castResultCount <= castResults.length at every point of every cast, also
\* when every registered body is hit in one call.
C14_AsStated == castResultCount <= Len(castResults)
----------------------------------------------------------------------------
\* Direct calls of segmentIntersection and pointToSegmentProjection (SpecSeg)

\* 2^-34, below epsilon.
Tiny == Num("fin", 1, 1, -34)

\* Endpoints more than epsilon apart.
Ends ==
    { Vec(Zero, Zero), Vec(One, Zero), Vec(Half(1), Half(1)), Vec(Zero, One),
      Vec(Int2Num(-1), Half(1)) }

\* Endpoints within epsilon of one another.
NearEnds == { Vec(Zero, Zero), Vec(Tiny, Zero), Vec(Zero, Tiny) }

\* The segments between the endpoints of E, those of length 0 included.
SegmentsOf(E) == { Seg(a, b) : a \in E, b \in E }

\* The endpoint-reversed copy of s.
Reversed(s) == Seg(s.b, s.a)

\* The arguments of the calls: the segments a and b, the reused ip as the
\* engine first holds it, the temporaries, and the result of the projection
\* of a.a on b.
SegArguments(a, b) ==
    [a |-> a, b |-> b, ip |-> Ip(Zero, Zero, Zero, Zero, FALSE),
     tv1 |-> ZERO, tv2 |-> ZERO, proj |-> ZERO, done |-> {}]

InitSeg ==
    \E E \in {Ends, NearEnds} : \E a \in SegmentsOf(E), b \in SegmentsOf(E) :
        NewEngine(FALSE, FALSE, FALSE, SegArguments(a, b))

\* math with the result i of segmentIntersection.
WithIntersection(m, i) == [m EXCEPT !.ip = i.ip, !.tv1 = i.tv1, !.tv2 = i.tv2]

SegmentIntersection ==
    /\ "segmentIntersection" \notin math.done
    /\ Returned(WithIntersection(math,
                    segmentIntersection(math.a, math.b, math.ip, math.tv1, math.tv2)),
                "segmentIntersection")
    /\ UNCHANGED <<engineVars, cast, hist>>

PointToSegmentProjection ==
    /\ "pointToSegmentProjection" \notin math.done
    /\ Returned([math EXCEPT !.proj = pointToSegmentProjection(math.a.a, math.b)],
                "pointToSegmentProjection")
    /\ UNCHANGED <<engineVars, cast, hist>>

NextSeg == SegmentIntersection \/ PointToSegmentProjection

SpecSeg == InitSeg /\ [][NextSeg]_vars

\* segmentIntersection has returned.
Intersected == "segmentIntersection" \in math.done

\* The midpoint of s.
Midpoint(s) ==
    Vec(FDiv(FAdd(s.a.x, s.b.x), Int2Num(2)), FDiv(FAdd(s.a.y, s.b.y), Int2Num(2)))

\* C11: for any segment s, segmentIntersection of s with itself, and of s
\* with its endpoint-reversed copy, returns valid = true, the intersection
\* point at the midpoint of s, and the parameters s = 1 and t = 0.
C11_EqualSegments ==
    Intersected /\ math.b \in {math.a, Reversed(math.a)}
        => /\ math.ip.valid
           /\ Vec(math.ip.x, math.ip.y) = Midpoint(math.a)
           /\ math.ip.s = One
           /\ math.ip.t = Zero

\* A segment longer than epsilon was intersected with its reversed copy.
C11_Witness ==
    /\ Intersected
    /\ math.a = Seg(Vec(Zero, Zero), Vec(One, Zero))
    /\ math.b = Reversed(math.a)
    /\ math.ip = Ip(Half(1), Zero, One, Zero, TRUE)
----------------------------------------------------------------------------
\* Contact-point resolution (SpecRef): an engine constructed with
\* distRefPoint on, and in math the query state of an engine constructed
\* with distRefPoint off that receives the same calls.

\* Two unit squares with facing edges one apart.
Facing == << Shape(Square, 0, 0), Shape(Square, 4, 0) >>

\* Two unit squares sharing an edge.
Abutting == << Shape(Square, 0, 0), Shape(Square, 2, 0) >>

\* A square with a vertex of a diamond pointing at its right edge.
VertexToEdge == << Shape(Square, 0, 0), Shape(Diamond, 3, 0) >>

\* Two small squares whose facing edges are 2^-17 apart: not colliding, at
\* squared distance below epsilon.
Grazing ==
    << [pos |-> ZERO, v |-> SmallSquare],
       [pos |-> Vec(FAdd(Eighth(1), Sliver), Zero), v |-> SmallSquare] >>

\* Three bodies: a square overlapping a square, and a triangle beside them.
Crowd == << Shape(Square, 0, 0), Shape(Square, 1, 1), Shape(Triangle, 3, 0) >>

RefLayouts == { Facing, Abutting, VertexToEdge, Grazing, Crowd }

\* The query state of a new engine with distRefPoint off.
Unreffed(S) == [S EXCEPT !.reffed = FALSE]

InitRef ==
    NewEngine(TRUE, TRUE, FALSE, Unreffed(QueryState))

\* The query state T of the other engine after updateData has created the
\* bodies bs.
OtherRebuilt(T, bs, maxPoints, maxCollisions) ==
    [T EXCEPT !.p.points = Grow(@, maxPoints, FreshPt),
              !.qn.points = Grow(@, Len(@) + Max2(0, maxPoints - Len(T.p.points)),
                                 FreshPt),
              !.msra = GrowMsra(@, IF storeMsrs THEN maxCollisions ELSE 1, maxPoints),
              !.collisions = Grow(@, maxCollisions, [a |-> someBody, b |-> someBody]),
              !.distances = InitDistances(@, bs)]

\* The query state of the other engine at the start of a call.
Other == [math EXCEPT !.threw = FALSE, !.tested = {}]

\* updateData on both engines.
UpdateBoth ==
    \E data \in RefLayouts :
        /\ Idle
        /\ hist.updates < MaxUpdates
        /\ updateData(data, hist.updates + 1)
        /\ Updated(data)
        /\ math' = OtherRebuilt(Other, bodies', MaxPointsFrom(bodies', 1, 0),
                                MaxCollisions(Len(bodies')))
        /\ UNCHANGED cast

\* A query leaves this engine as S says and the other engine as T says.
QueryBoth(S, T, op, swapped) == Commit(S) /\ Called(S, op, swapped) /\ math' = T

CheckCollisionsBoth ==
    \E stopOnFirst \in BOOLEAN :
        /\ Idle
        /\ QueryBoth(checkCollisions(stopOnFirst),
                     PairsLoop(ResetCounts(Other), 0, 1, stopOnFirst),
                     "checkCollisions", FALSE)

CheckBodyCollisionBoth ==
    \E i \in 1..Len(bodies), stopOnFirst \in BOOLEAN :
        /\ Idle
        /\ QueryBoth(checkBodyCollision(bodies[i], stopOnFirst),
                     BodyLoop(ResetCounts(Other), bodies[i], 0, stopOnFirst),
                     "checkBodyCollision", i > 1)

CheckBodyBodyCollisionBoth ==
    \E i \in 1..Len(bodies), j \in 1..Len(bodies) :
        /\ Idle
        /\ i # j
        /\ QueryBoth(checkBodyBodyCollision(bodies[i], bodies[j]),
                     OrderedCheck(ResetCounts(Other), bodies[i], bodies[j]),
                     "checkBodyBodyCollision", i > j)

NextRef ==
    \/ UpdateBoth
    \/ CheckCollisionsBoth
    \/ CheckBodyCollisionBoth
    \/ CheckBodyBodyCollisionBoth

SpecRef == InitRef /\ [][NextRef]_vars

\* The fields d and dv of the distance records of table ds.
Measures(ds) ==
    [i \in 1..Len(ds) |-> [k \in 1..Len(ds[i]) |-> [d |-> ds[i][k].d, dv |-> ds[i][k].dv]]]

\* C12: with contact-point resolution on, the same bodies and the same
\* sequence of calls give the same collision list, the same collisionCount
\* and the same d and dv in every distance record as with it off.
C12_SameResults ==
    /\ collisions = math.collisions
    /\ collisionCount = math.collisionCount
    /\ Measures(distances) = Measures(math.distances)
    /\ hist.threw = math.threw

\* Parallel facing edges were measured: the contact point was resolved from
\* the diagonals, and only pt differs between the two engines.
C12_Witness ==
    /\ hist.op = "checkCollisions"
    /\ Holds(Facing)
    /\ distances[1][1].d = One
    /\ distances[1][1].pt = Vec(Half(1), Zero)
    /\ math.distances[1][1].pt = ZERO
    /\ tv.ip.valid

\* The places (row, column) of the distance table that hold the record of a
\* pair i < j of the current bodies.
CurrentRecords ==
    {rc \in (1..(Len(bodies) - 1)) \X (1..Len(bodies)) : rc[1] + rc[2] <= Len(bodies)}

\* C15: updateData resets the record of every pair i < j of the new body
\* list to the unmeasured state: d is NaN, dv = (0,0) and pt = (0,0),
\* whatever earlier queries stored in the reused record.
C15_AsStated ==
    hist.op = "updateData" =>
        \A rc \in CurrentRecords :
            /\ IsNaN(distances[rc[1]][rc[2]].d)
            /\ distances[rc[1]][rc[2]].dv = ZERO
            /\ distances[rc[1]][rc[2]].pt = ZERO
----------------------------------------------------------------------------
\* Buffer capacities over rebuilds (SpecGrow)

\* Bound on the number of updateData calls in one behaviour of SpecGrow.
MaxRebuilds == 3

\* Registries of 0 to 3 bodies with rings of 3 and of 4 vertices, the
\* bodies apart from one another.
GrowLayouts ==
    { <<>>,
      << Shape(Triangle, 0, 0) >>,
      << Shape(Triangle, 0, 0), Shape(Corner, 4, 0) >>,
      << Shape(Square, 0, 0), Shape(Square, 4, 0), Shape(Square, 8, 0) >> }

InitGrow == \E sm \in BOOLEAN : NewEngine(TRUE, FALSE, sm, <<>>)

NextGrow ==
    \/ UpdateFrom(GrowLayouts, MaxRebuilds)
    \/ CheckCollisions
    \/ CheckBodyCollision
    \/ CheckBodyBodyCollision

SpecGrow == InitGrow /\ [][NextGrow]_vars

\* The lengths of the scratch buffers: p, qn, castDistPArr, collisions,
\* castResults, msra and each of its result buffers, distances and each of
\* its rows.
Capacities ==
    << Len(p.points), Len(qn.points), Len(castDistPArr.points), Len(collisions),
       Len(castResults), Len(msra) >>
    \o [k \in 1..Len(msra) |-> Len(msra[k].points)]
    \o << Len(distances) >>
    \o [i \in 1..Len(distances) |-> Len(distances[i])]

\* No capacity of seq a is missing from, or larger than in, seq b.
NoneShrunk(a, b) ==
    /\ Len(a) <= Len(b)
    /\ \A k \in 1..Len(a) : a[k] <= b[k]

\* The indices of the result buffers a query on the current bodies can
\* select: one per pair when storeMsrs, otherwise buffer 0.
Selectable ==
    IF storeMsrs THEN 0..((Len(bodies) * (Len(bodies) - 1)) \div 2 - 1) ELSE {0}

\* The capacities cover the current bodies.
Covered ==
    /\ \A i \in 1..Len(bodies) :
           /\ Len(p.points) >= Len(bodies[i].v)
           /\ Len(qn.points) >= Len(bodies[i].v)
           /\ Len(castDistPArr.points) >= Len(bodies[i].v)
           /\ \A k \in Selectable :
                  k < Len(msra) /\ Len(At(msra, k).points) >= 2 * Len(bodies[i].v)
    /\ Len(collisions) >= (Len(bodies) * (Len(bodies) - 1)) \div 2

\* C13: across any sequence of updateData calls and queries no scratch
\* buffer shrinks, and after each call p, qn and castDistPArr hold at least
\* maxVertexCount points, every result buffer a query can select holds at
\* least 2 * maxVertexCount points, collisions holds at least N(N-1)/2
\* entries, and no query has written past the end of a buffer.
C13_BuffersCover ==
    [][NoneShrunk(Capacities, Capacities') /\ Covered' /\ ~hist'.threw]_vars

\* A registry of two bodies of 3 vertices rebuilt after one of three bodies
\* of 4 vertices and queried: the buffers keep the larger capacities.
C13_Witness ==
    /\ hist.updates >= 2
    /\ hist.op = "checkCollisions"
    /\ Len(bodies) = 2
    /\ \A i \in 1..Len(bodies) : Len(bodies[i].v) = 3
    /\ Len(collisions) = 3
    /\ Len(p.points) = 4
    /\ msra[1].pCount > 4
====
